---- MODULE Spec2Model ----
(***************************************************************************)
(* pybleau: a TableauClient session (src/pybleau/auth.py) shared by a      *)
(* WorkbookManager (src/pybleau/workbooks.py) and a MetadataAPI            *)
(* (src/pybleau/metadata.py).  Every public method is one action; the      *)
(* server's answer to the single HTTP request a method sends is the        *)
(* action's input.                                                         *)
(*                                                                         *)
(* Python/JSON values are tagged records: None and JSON null are JNull,    *)
(* a str is JStr(s), a dict is JObj(f) with f a function on its keys, a    *)
(* body on which response.json() raises is JInvalid.                       *)
(***************************************************************************)
EXTENDS Integers, Sequences, FiniteSets, TLC

VARIABLES server_url, token_name, token_secret, site_id,
          auth_token, site_uuid, wm_exists, wm_site_id, md_exists, call,
          rd_pc, rd_headers

\* the fields of a TableauClient that only its constructor assigns
config == <<server_url, token_name, token_secret, site_id>>

\* a second thread evaluating client.headers: where it is in the property
\* and the map its last evaluation returned
reader == <<rd_pc, rd_headers>>

vars == <<config, auth_token, site_uuid, wm_exists, wm_site_id, md_exists, call,
          reader>>

(* ---------------------------- bounds ----------------------------------- *)

NumTokens == 2
NumSites == 1
MaxTrailing == 2
MaxTags == 2
MaxViews == 1

TokenNames == <<"tokA", "tokB", "tokC", "tokD">>
SiteNames == <<"siteA", "siteB", "siteC">>

(* ------------------------- Python / JSON values ------------------------ *)

JNull == [t |-> "null"]
JInvalid == [t |-> "invalid"]
JStr(s) == [t |-> "str", s |-> s]
JObj(f) == [t |-> "obj", o |-> f]
JArr(a) == [t |-> "arr", a |-> a]
JBool(b) == [t |-> "bool", b |-> b]
None == JNull
True == JBool(TRUE)
False == JBool(FALSE)
EmptyDict == JObj([k \in {} |-> JNull])

\* d.get(k, default) on a dict d
Get(d, k, default) == IF k \in DOMAIN d.o THEN d.o[k] ELSE default

\* hasattr(v, "get"): anything else raises AttributeError on v.get(...)
IsDict(v) == v.t = "obj"

\* bool(v) for the values that occur
Truthy(v) ==
    CASE v.t = "str" -> v.s # ""
      [] v.t = "obj" -> DOMAIN v.o # {}
      [] v.t = "arr" -> v.a # <<>>
      [] v.t = "bool" -> v.b
      [] OTHER -> FALSE

\* a str argument as its characters
JChars(cs) == [t |-> "str", chars |-> cs]

\* the characters as one string
RECURSIVE Join(_)
Join(cs) == IF cs = <<>> THEN "" ELSE Head(cs) \o Join(Tail(cs))

\* str.startswith(prefix)
StartsWith(cs, prefix) ==
    Len(cs) >= Len(prefix) /\ SubSeq(cs, 1, Len(prefix)) = prefix

\* str.rstrip(chars)
RECURSIVE rstrip_chars(_, _)
rstrip_chars(cs, chars) ==
    IF cs # <<>> /\ cs[Len(cs)] \in chars
    THEN rstrip_chars(SubSeq(cs, 1, Len(cs) - 1), chars) ELSE cs

(* ------------------------- server responses ---------------------------- *)

\* requests.post / requests.get either raises a RequestException or
\* returns a response
\* returns a response: its status, its decoded body, its raw text and its
\* Retry-After header (None when absent)
\* (exc: the class of the exception raised instead of a response)
TransportError == [kind |-> "transport", status |-> 0, body |-> JNull,
                   text |-> "", retry_after |-> JNull, exc |-> "ConnectionError"]
Http(status, body) == [kind |-> "http", status |-> status, body |-> body,
                       text |-> "", retry_after |-> JNull, exc |-> ""]

\* the RequestException subclasses requests raises for a failed request
TransportErrors ==
    {[TransportError EXCEPT !.exc = e] : e \in {"ConnectionError", "Timeout", "HTTPError"}}

StatusCodes == {200, 204, 302, 400, 401, 403, 404, 429, 500, 503}

\* the empty string is a str like any other, and falsy
TokenValues == {JStr("")} \cup {JStr(TokenNames[i]) : i \in 1..NumTokens}
SiteIdValues == {JStr(SiteNames[i]) : i \in 1..NumSites}

\* a dict with no key k, or with key k bound to a value of V
Opt(k, V) == {[x \in {} |-> JNull]} \cup {[x \in {k} |-> v] : v \in V}

SiteValues == {JNull} \cup {JObj(f) : f \in Opt("id", {JNull} \cup SiteIdValues)}
CredentialsValues ==
    {JNull} \cup
    {JObj(tf @@ sf) : tf \in Opt("token", {JNull} \cup TokenValues),
                      sf \in Opt("site", SiteValues)}

\* decoded bodies a sign-in response can carry
SigninBodies ==
    {JInvalid, JNull} \cup {JObj(f) : f \in Opt("credentials", CredentialsValues)}

\* answers to the sign-in POST; only a 200 body is decoded into the session
SigninResponses ==
    {Http(200, b) : b \in SigninBodies}
    \cup {Http(s, b) : s \in StatusCodes \ {200}, b \in {JInvalid, JNull}}

\* bodies a 401/403 answer can carry
ErrorBodies ==
    {JInvalid, JNull} \cup
    {JObj(f) : f \in Opt("error", {JNull} \cup
                 {JObj(g) : g \in Opt("detail", {JStr("Authentication token expired")})})}

\* sample workbook records: tags and views absent, None, empty, well formed
\* and malformed
Label(l) == JObj([k \in {"label"} |-> JStr(l)])
TagsSamples ==
    {JNull, EmptyDict,
     JObj([k \in {"tag"} |-> JArr(<<Label("sales"), Label("dashboard")>>)]),
     JObj([k \in {"tag"} |-> JArr(<<EmptyDict>>)])}
ViewsSamples ==
    {JNull, EmptyDict,
     JObj([k \in {"view"} |-> JArr(<<JObj([k2 \in {"id"} |-> JStr("view1")])>>)])}
WorkbookSamples ==
    {JObj([k \in {"id"} |-> JStr("workbook1")] @@ tf @@ vf) :
        tf \in Opt("tags", TagsSamples), vf \in Opt("views", ViewsSamples)}
\* all sequences over S of length at most n
RECURSIVE SeqsUpTo(_, _)
SeqsUpTo(S, n) ==
    IF n = 0 THEN {<<>>}
    ELSE SeqsUpTo(S, n - 1)
         \cup {Append(q, x) : q \in SeqsUpTo(S, n - 1), x \in S}

\* the tags and views values _transform_workbook is applied to: None, an
\* empty wrapper, a wrapper without the entry, wrappers of up to MaxTags
\* labels and MaxViews views, and a tag without a label
TagLabels == {"sales", "dashboard", "tag"}
TagsInputs ==
    {JNull, EmptyDict, JObj([k \in {"totalAvailable"} |-> JStr("0")]),
     JObj([k \in {"tag"} |-> JArr(<<EmptyDict>>)])}
    \cup {JObj([k \in {"tag"} |-> JArr([i \in DOMAIN ls |-> Label(ls[i])])]) :
            ls \in SeqsUpTo(TagLabels, MaxTags)}
ViewRecords == {JObj([k \in {"id"} |-> JStr(v)]) : v \in {"view1", "view2"}}
ViewsInputs ==
    {JNull, EmptyDict, JObj([k \in {"totalAvailable"} |-> JStr("0")])}
    \cup {JObj([k \in {"view"} |-> JArr(vs)]) : vs \in SeqsUpTo(ViewRecords, MaxViews)}
WorkbookInputs ==
    {JObj([k \in {"id"} |-> JStr("workbook1")] @@ tf @@ vf) :
        tf \in Opt("tags", TagsInputs), vf \in Opt("views", ViewsInputs)}

WorkbookListSamples ==
    {<<>>} \cup {<<w>> : w \in WorkbookSamples}
    \cup {<<JObj([k \in {"id"} |-> JStr("workbook2")] @@ tf), w>> :
            tf \in Opt("tags", TagsSamples),
            w \in {JObj([k \in {"id", "views"} |->
                            IF k = "id" THEN JStr("workbook1") ELSE EmptyDict])}}

\* decoded bodies a workbook listing can carry
ListBodies ==
    {JInvalid, JNull, EmptyDict}
    \cup {JObj([k \in {"workbooks"} |-> w]) :
            w \in {JNull, EmptyDict, JObj([k2 \in {"workbook"} |-> JNull])}
                  \cup {JObj([k2 \in {"workbook"} |-> JArr(l)]) : l \in WorkbookListSamples}}

ListResponses ==
    {Http(200, b) : b \in ListBodies}
    \cup {Http(s, b) : s \in {401, 403}, b \in ErrorBodies}
    \cup {Http(s, b) : s \in {204, 302}, b \in {JInvalid, EmptyDict}}
    \cup {Http(s, JInvalid) : s \in StatusCodes \ {200, 204, 302, 401, 403}}

\* **kwargs of list_workbooks, sent as query parameters
Filters == {EmptyDict, JObj([k \in {"pageSize"} |-> JStr("10")])}

\* decoded bodies a single-workbook answer can carry
GetBodies ==
    {JInvalid, JNull, EmptyDict}
    \cup {JObj([k \in {"workbook"} |-> w]) : w \in {JNull} \cup WorkbookSamples}

GetResponses ==
    {Http(200, b) : b \in GetBodies}
    \cup {Http(s, b) : s \in {401, 403}, b \in ErrorBodies}
    \cup {Http(s, b) : s \in {204, 302}, b \in {JInvalid, EmptyDict}}
    \cup {Http(s, JInvalid) : s \in StatusCodes \ {200, 204, 302, 401, 403}}

\* workbook_id arguments: not a str, empty, blank, plain, padded
WorkbookIds ==
    {None, JArr(<<>>), JChars(<<>>), JChars(<<" ">>), JChars(<<" ", "\t", " ">>),
     JChars(<<"w", "b">>), JChars(<<" ", "w", "b", " ">>)}

\* query arguments
Queries == {None, JStr(""), JStr("{ workbooks { name } }")}
Variables == {None, EmptyDict, JObj([k \in {"id"} |-> JStr("workbook1")])}

\* decoded bodies a GraphQL answer can carry
GraphQLErrors == JArr(<<JObj([k \in {"message"} |-> JStr("Syntax Error")])>>)
GraphQLData == JObj([k \in {"workbooks"} |-> JArr(<<>>)])
QueryBodies ==
    {JInvalid, JNull, EmptyDict,
     JObj([k \in {"data"} |-> GraphQLData]),
     JObj([k \in {"errors"} |-> GraphQLErrors]),
     JObj([k \in {"data", "errors"} |-> IF k = "data" THEN JNull ELSE GraphQLErrors])}

\* answers to the GraphQL POST: the body's text is read on 400 and 5xx, the
\* Retry-After header on 429
QueryResponses ==
    {[Http(400, b) EXCEPT !.text = t] :
        b \in QueryBodies, t \in {"", "Bad Request"}}
    \cup {[Http(s, JInvalid) EXCEPT !.text = t] :
            s \in {500, 503}, t \in {"", "Internal Server Error"}}
    \cup {[Http(429, JInvalid) EXCEPT !.retry_after = ra] : ra \in {None, JStr("30")}}
    \cup {Http(s, b) : s \in {200, 204, 302}, b \in QueryBodies}
    \cup {Http(s, JInvalid) : s \in {401, 403, 404}}

NoResp == [kind |-> "none", status |-> 0, body |-> JNull, text |-> "",
           retry_after |-> JNull, exc |-> ""]
\* a request: verb, endpoint, the site and the resource id in its URL, its
\* headers, and its query parameters or JSON body
Req(method, endpoint, site, id, hdrs, payload) ==
    [method |-> method, endpoint |-> endpoint, site |-> site, id |-> id,
     headers |-> hdrs, payload |-> payload]
NoReq == Req("none", "none", JNull, <<>>, [h \in {} |-> ""], JNull)

\* how a call ends: it returns a value, or raises exception exc(detail)
Returns(v) == [kind |-> "return", value |-> v, exc |-> "", detail |-> ""]
Raises(e, d) == [kind |-> "raise", value |-> None, exc |-> e, detail |-> d]
\* ... with str(v) appended to the message
RaisesWith(e, d, v) == [kind |-> "raise", value |-> v, exc |-> e, detail |-> d]

\* a step of a handler either yields a value or raises exc(detail)
Ok(v) == [ok |-> TRUE, v |-> v, exc |-> "", detail |-> ""]
Err(e, d) == [ok |-> FALSE, v |-> None, exc |-> e, detail |-> d]

\* the record of the last call: its argument, the request it sent (sent is
\* the number of requests), the answer, how it ended, and the session fields
\* it started from
Call(op, arg, sent, req, resp, ret) ==
    [op |-> op, arg |-> arg, sent |-> sent, req |-> req, resp |-> resp,
     ret |-> ret, pre |-> [auth_token |-> auth_token, site_uuid |-> site_uuid]]

(* ------------------------- TableauClient ------------------------------- *)

HttpScheme == <<"h", "t", "t", "p", ":", "/", "/">>
HttpsScheme == <<"h", "t", "t", "p", "s", ":", "/", "/">>
Host == <<"t", ".", "c", "o">>

RECURSIVE Slashes(_)
Slashes(n) == IF n = 0 THEN <<>> ELSE <<"/">> \o Slashes(n - 1)

\* server_url arguments: None, empty, no scheme, another scheme, the scheme
\* alone, and http(s) URLs with and without trailing slashes
ServerUrls ==
    {None, JChars(<<>>), JChars(Host), JChars(<<"f", "t", "p", ":", "/", "/">> \o Host),
     JChars(HttpScheme), JChars(HttpsScheme)}
    \cup {JChars(scheme \o Host \o Slashes(n)) :
            scheme \in {HttpScheme, HttpsScheme}, n \in 0..MaxTrailing}
TokenNameArgs == {None, JStr(""), JStr("test_token")}
TokenSecretArgs == {None, JStr(""), JStr("test_secret_123")}
SiteIdArgs == {JStr(""), JStr("test_site")}

\* not server_url or not server_url.startswith(('http://', 'https://'))
invalid_server_url(url) ==
    url.chars = <<>>
    \/ ~(StartsWith(url.chars, HttpScheme) \/ StartsWith(url.chars, HttpsScheme))

TableauClient_init_outcome_keeps_slashes(url, name, secret, site) ==
    IF url.t # "str" THEN Err("AttributeError", "")
    ELSE IF invalid_server_url(url)
    THEN Err("ValueError", "Server URL must be a valid HTTP/HTTPS URL")
    ELSE IF ~Truthy(name) THEN Err("ValueError", "Token name cannot be empty")
    ELSE IF ~Truthy(secret) THEN Err("ValueError", "Token secret cannot be empty")
    ELSE Ok([server_url |-> url,
             token_name |-> name, token_secret |-> secret, site_id |-> site,
             auth_token |-> None, site_uuid |-> None])
\* TableauClient(url, name, secret, site): the fields of the new client, or
\* the exception that leaves no client
TableauClient_init_outcome(url, name, secret, site) ==
    IF url.t # "str" THEN Err("AttributeError", "")
    ELSE IF invalid_server_url(url)
    THEN Err("ValueError", "Server URL must be a valid HTTP/HTTPS URL")
    ELSE IF ~Truthy(name) THEN Err("ValueError", "Token name cannot be empty")
    ELSE IF ~Truthy(secret) THEN Err("ValueError", "Token secret cannot be empty")
    ELSE Ok([server_url |-> JChars(rstrip_chars(url.chars, {"/"})),
             token_name |-> name, token_secret |-> secret, site_id |-> site,
             auth_token |-> None, site_uuid |-> None])

\* client = TableauClient(...): a failed construction leaves the client
\* that was there
TableauClient_init ==
    \E url \in ServerUrls, name \in TokenNameArgs, secret \in TokenSecretArgs,
       site \in SiteIdArgs :
        LET out == TableauClient_init_outcome(url, name, secret, site)
            arg == [server_url |-> url, token_name |-> name,
                    token_secret |-> secret, site_id |-> site]
        IN
        /\ call' = Call("TableauClient", arg, 0, NoReq, NoResp,
                        IF out.ok THEN Returns(None) ELSE Raises(out.exc, out.detail))
        /\ IF out.ok
           THEN /\ server_url' = out.v.server_url
                /\ token_name' = out.v.token_name
                /\ token_secret' = out.v.token_secret
                /\ site_id' = out.v.site_id
                /\ auth_token' = out.v.auth_token
                /\ site_uuid' = out.v.site_uuid
           ELSE UNCHANGED <<config, reader, auth_token, site_uuid>>
        /\ UNCHANGED <<reader, wm_exists, wm_site_id, md_exists>>

is_authenticated(tok) == tok # None

\* the TableauClient object as a record of its fields
client ==
    [server_url |-> server_url, token_name |-> token_name,
     token_secret |-> token_secret, site_id |-> site_id,
     auth_token |-> auth_token, site_uuid |-> site_uuid]

TableauClient_str_with_secret(c) ==
    "TableauClient(server=" \o Join(c.server_url.chars)
    \o ", site=" \o c.site_id.s \o ", secret=" \o c.token_secret.s \o ", "
    \o (IF is_authenticated(c.auth_token) THEN "authenticated" ELSE "not authenticated")
    \o ")"
\* str(client)
TableauClient_str(c) ==
    "TableauClient(server=" \o Join(c.server_url.chars)
    \o ", site=" \o c.site_id.s \o ", "
    \o (IF is_authenticated(c.auth_token) THEN "authenticated" ELSE "not authenticated")
    \o ")"

\* s = str(client)
str_call ==
    /\ call' = Call("__str__", None, 0, NoReq, NoResp,
                    Returns(JStr(TableauClient_str(client))))
    /\ UNCHANGED <<config, reader, auth_token, site_uuid, wm_exists, wm_site_id, md_exists>>

headers(tok) ==
    IF Truthy(tok)
    THEN [h \in {"Content-Type", "X-Tableau-Auth"} |->
             IF h = "Content-Type" THEN "application/json" ELSE tok.s]
    ELSE [h \in {"Content-Type"} |-> "application/json"]

\* client.headers in the reader thread, up to the test `if self.auth_token:`;
\* a falsy token returns the map without the auth entry
headers_test ==
    /\ rd_pc = "idle"
    /\ IF Truthy(auth_token)
       THEN /\ rd_pc' = "assign"
            /\ UNCHANGED rd_headers
       ELSE /\ rd_pc' = "idle"
            /\ rd_headers' = [h \in {"Content-Type"} |-> JStr("application/json")]
    /\ UNCHANGED <<config, auth_token, site_uuid, wm_exists, wm_site_id, md_exists, call>>

\* ... and from there: headers["X-Tableau-Auth"] = self.auth_token reads the
\* field again, then the map is returned
headers_assign ==
    /\ rd_pc = "assign"
    /\ rd_pc' = "idle"
    /\ rd_headers' = [h \in {"Content-Type", "X-Tableau-Auth"} |->
                         IF h = "Content-Type" THEN JStr("application/json")
                         ELSE auth_token]
    /\ UNCHANGED <<config, auth_token, site_uuid, wm_exists, wm_site_id, md_exists, call>>

\* The else branch of authenticate(): a status other than 200 is printed
\* (with the decoded body on 401, if it decodes) and the call returns False.
signin_rejected_clears(tok, site, r) ==
    [auth_token |-> None, site_uuid |-> None, ret |-> Returns(False)]
signin_rejected_raises(tok, site, r) ==
    [auth_token |-> tok, site_uuid |-> site,
     ret |-> IF r.status >= 500 THEN Raises("HTTPError", "") ELSE Returns(False)]
signin_rejected(tok, site, r) ==
    [auth_token |-> tok, site_uuid |-> site, ret |-> Returns(False)]

\* except requests.exceptions.RequestException: raise
signin_failed_swallowed(tok, site, r) ==
    [auth_token |-> tok, site_uuid |-> site, ret |-> Returns(False)]
signin_failed(tok, site, r) ==
    [auth_token |-> tok, site_uuid |-> site, ret |-> Raises(r.exc, "")]

\* The outcome of authenticate() on server answer r from session (tok, site):
\* the fields after the call and what the call returns or raises.
\* jsonErrIsTransport: whether the installed requests raises its own
\* JSONDecodeError (a RequestException) or a plain ValueError from json().
authenticate_outcome(tok, site, r, jsonErrIsTransport) ==
    LET unchanged(ret) == [auth_token |-> tok, site_uuid |-> site, ret |-> ret]
    IN
    IF r.kind = "transport"
    THEN signin_failed(tok, site, r)
    ELSE IF r.status # 200
    THEN signin_rejected(tok, site, r)
    ELSE IF r.body = JInvalid
    THEN (IF jsonErrIsTransport
          THEN unchanged(Raises("RequestException", ""))
          ELSE unchanged(Returns(False)))
    ELSE IF ~IsDict(r.body)
    THEN unchanged(Returns(False))
    ELSE LET credentials == Get(r.body, "credentials", EmptyDict) IN
    IF ~IsDict(credentials)
    THEN unchanged(Returns(False))
    ELSE LET token == Get(credentials, "token", None)
             site_info == Get(credentials, "site", EmptyDict) IN
    IF ~IsDict(site_info)
    THEN [auth_token |-> token, site_uuid |-> site, ret |-> Returns(False)]
    ELSE [auth_token |-> token, site_uuid |-> Get(site_info, "id", None),
          ret |-> Returns(True)]

\* the POST authenticate() sends: credentials in the body, no auth header
signin_request ==
    Req("POST", "auth/signin", JNull, <<>>,
        [h \in {"Content-Type"} |-> "application/json"],
        JObj([k \in {"credentials"} |->
            JObj([k2 \in {"personalAccessTokenCredentials"} |->
                JObj([k3 \in {"tokenName", "tokenValue", "site"} |->
                    CASE k3 = "tokenName" -> token_name
                      [] k3 = "tokenValue" -> token_secret
                      [] OTHER -> JObj([k4 \in {"contentUrl"} |-> site_id])])])]))

authenticate ==
    \E r \in TransportErrors \cup SigninResponses :
    \E j \in IF r.body = JInvalid /\ r.status = 200 THEN BOOLEAN ELSE {FALSE} :
        LET out == authenticate_outcome(auth_token, site_uuid, r, j) IN
        /\ auth_token' = out.auth_token
        /\ site_uuid' = out.site_uuid
        /\ call' = Call("authenticate", None, 1, signin_request, r, out.ret)
        /\ UNCHANGED <<config, reader, wm_exists, wm_site_id, md_exists>>

signout_outcome_keeps_on_failure(tok, site, r) ==
    IF ~is_authenticated(tok)
    THEN [auth_token |-> tok, site_uuid |-> site, sent |-> 0,
          req |-> NoReq, resp |-> NoResp, ret |-> Returns(True)]
    ELSE [auth_token |-> IF r.kind = "transport" THEN tok ELSE None,
          site_uuid |-> IF r.kind = "transport" THEN site ELSE None,
          sent |-> 1,
          req |-> Req("POST", "auth/signout", JNull, <<>>, headers(tok), JNull),
          resp |-> r,
          ret |-> IF r.kind = "transport" THEN Returns(False)
                  ELSE Returns(JBool(r.status = 204))]
signout_outcome_any_2xx(tok, site, r) ==
    IF ~is_authenticated(tok)
    THEN [auth_token |-> tok, site_uuid |-> site, sent |-> 0,
          req |-> NoReq, resp |-> NoResp, ret |-> Returns(True)]
    ELSE [auth_token |-> None, site_uuid |-> None, sent |-> 1,
          req |-> Req("POST", "auth/signout", JNull, <<>>, headers(tok), JNull),
          resp |-> r,
          ret |-> IF r.kind = "transport" THEN Returns(False)
                  ELSE Returns(JBool(r.status >= 200 /\ r.status < 300))]
\* The outcome of signout() on server answer r from session (tok, site).
signout_outcome(tok, site, r) ==
    IF ~is_authenticated(tok)
    THEN [auth_token |-> tok, site_uuid |-> site, sent |-> 0,
          req |-> NoReq, resp |-> NoResp, ret |-> Returns(True)]
    ELSE [auth_token |-> None, site_uuid |-> None, sent |-> 1,
          req |-> Req("POST", "auth/signout", JNull, <<>>, headers(tok), JNull),
          resp |-> r,
          ret |-> IF r.kind = "transport" THEN Returns(False)
                  ELSE Returns(JBool(r.status = 204))]

signout ==
    \E r \in {TransportError} \cup {Http(s, JNull) : s \in StatusCodes} :
        LET out == signout_outcome(auth_token, site_uuid, r) IN
        /\ auth_token' = out.auth_token
        /\ site_uuid' = out.site_uuid
        /\ call' = Call("signout", None, out.sent, out.req, out.resp, out.ret)
        /\ UNCHANGED <<config, reader, wm_exists, wm_site_id, md_exists>>

(* ------------------------- WorkbookManager ----------------------------- *)

\* str(v) as an f-string renders it
Str(v) == IF v.t = "str" THEN v.s ELSE IF v = None THEN "None" ELSE "<object>"

\* `k in v` is defined on dicts (keys) and lists (elements); on None it
\* raises TypeError
CanContain(v) == v.t \in {"obj", "arr"}
Contains(v, k) ==
    IF v.t = "obj" THEN k \in DOMAIN v.o
    ELSE \E i \in 1..Len(v.a) : v.a[i] = JStr(k)

\* [tag["label"] for tag in tags], left to right
RECURSIVE Labels(_)
Labels(tags) ==
    IF tags = <<>> THEN Ok(<<>>)
    ELSE LET tag == Head(tags) IN
         IF ~IsDict(tag) THEN Err("TypeError", "")
         ELSE IF "label" \notin DOMAIN tag.o THEN Err("KeyError", "label")
         ELSE LET rest == Labels(Tail(tags)) IN
              IF rest.ok THEN Ok(<<tag.o["label"]>> \o rest.v) ELSE rest

transform_tags_keeps_lists(tags_data) ==
    IF ~Truthy(tags_data) THEN Ok(JArr(<<>>))
    ELSE IF ~CanContain(tags_data) THEN Err("TypeError", "")
    ELSE IF ~IsDict(tags_data) THEN Ok(tags_data)
    ELSE IF ~Contains(tags_data, "tag") THEN Ok(JArr(<<>>))
    ELSE LET tags == tags_data.o["tag"] IN
         IF tags.t = "arr"
         THEN LET ls == Labels(tags.a) IN IF ls.ok THEN Ok(JArr(ls.v)) ELSE ls
         ELSE IF Truthy(tags) \/ tags.t \in {"null", "bool"}
         THEN Err("TypeError", "")
         ELSE Ok(JArr(<<>>))
transform_tags(tags_data) ==
    IF ~Truthy(tags_data) THEN Ok(JArr(<<>>))
    ELSE IF ~CanContain(tags_data) THEN Err("TypeError", "")
    ELSE IF ~Contains(tags_data, "tag") THEN Ok(JArr(<<>>))
    ELSE IF ~IsDict(tags_data) THEN Err("TypeError", "")
    ELSE LET tags == tags_data.o["tag"] IN
         IF tags.t = "arr"
         THEN LET ls == Labels(tags.a) IN IF ls.ok THEN Ok(JArr(ls.v)) ELSE ls
         ELSE IF Truthy(tags) \/ tags.t \in {"null", "bool"}
         THEN Err("TypeError", "")
         ELSE Ok(JArr(<<>>))

transform_views_wrapped(views_data) ==
    IF ~Truthy(views_data) THEN Ok(JArr(<<>>))
    ELSE IF ~CanContain(views_data) THEN Err("TypeError", "")
    ELSE IF ~Contains(views_data, "view") THEN Ok(JArr(<<>>))
    ELSE IF ~IsDict(views_data) THEN Err("TypeError", "")
    ELSE Ok(views_data)
transform_views(views_data) ==
    IF ~Truthy(views_data) THEN Ok(JArr(<<>>))
    ELSE IF ~CanContain(views_data) THEN Err("TypeError", "")
    ELSE IF ~Contains(views_data, "view") THEN Ok(JArr(<<>>))
    ELSE IF ~IsDict(views_data) THEN Err("TypeError", "")
    ELSE Ok(views_data.o["view"])

transform_workbook_fills(workbook) ==
    IF ~CanContain(workbook) THEN Err("TypeError", "")
    ELSE IF ~IsDict(workbook)
    THEN (IF Contains(workbook, "tags") \/ Contains(workbook, "views")
          THEN Err("TypeError", "") ELSE Ok(workbook))
    ELSE
    LET t == IF "tags" \in DOMAIN workbook.o
             THEN transform_tags(workbook.o["tags"]) ELSE Ok(JArr(<<>>))
    IN
    IF ~t.ok THEN t
    ELSE
    LET w1 == [k \in DOMAIN workbook.o \cup {"tags"} |->
                  IF k = "tags" THEN t.v ELSE workbook.o[k]]
        v == IF "views" \in DOMAIN w1 THEN transform_views(w1["views"]) ELSE Ok(None)
    IN
    IF ~v.ok THEN v
    ELSE Ok(JObj(IF "views" \in DOMAIN w1 THEN [w1 EXCEPT !["views"] = v.v] ELSE w1))
transform_workbook(workbook) ==
    IF ~CanContain(workbook) THEN Err("TypeError", "")
    ELSE IF ~IsDict(workbook)
    THEN (IF Contains(workbook, "tags") \/ Contains(workbook, "views")
          THEN Err("TypeError", "") ELSE Ok(workbook))
    ELSE
    LET t == IF "tags" \in DOMAIN workbook.o
             THEN transform_tags(workbook.o["tags"]) ELSE Ok(None)
    IN
    IF ~t.ok THEN t
    ELSE
    LET w1 == IF "tags" \in DOMAIN workbook.o
              THEN [workbook.o EXCEPT !["tags"] = t.v] ELSE workbook.o
        v == IF "views" \in DOMAIN w1 THEN transform_views(w1["views"]) ELSE Ok(None)
    IN
    IF ~v.ok THEN v
    ELSE Ok(JObj(IF "views" \in DOMAIN w1 THEN [w1 EXCEPT !["views"] = v.v] ELSE w1))

\* [self._transform_workbook(wb) for wb in workbooks], left to right
RECURSIVE transform_all(_)
transform_all(workbooks) ==
    IF workbooks = <<>> THEN Ok(<<>>)
    ELSE LET w == transform_workbook(Head(workbooks)) IN
         IF ~w.ok THEN w
         ELSE LET rest == transform_all(Tail(workbooks)) IN
              IF rest.ok THEN Ok(<<w.v>> \o rest.v) ELSE rest

\* response.json().get("error", {}).get("detail", default)
error_detail(body, default) ==
    IF body = JInvalid THEN Err("JSONDecodeError", "")
    ELSE IF ~IsDict(body) THEN Err("AttributeError", "")
    ELSE LET error_data == Get(body, "error", EmptyDict) IN
         IF ~IsDict(error_data) THEN Err("AttributeError", "")
         ELSE Ok(Get(error_data, "detail", JStr(default)))

raise_for_status_3xx(r) ==
    IF r.status >= 300 /\ r.status < 600 THEN Err("HTTPError", "") ELSE Ok(None)
\* response.raise_for_status()
raise_for_status(r) ==
    IF r.status >= 400 /\ r.status < 600 THEN Err("HTTPError", "") ELSE Ok(None)

handle_response(r) ==
    IF r.status = 401
    THEN LET d == error_detail(r.body, "Authentication failed") IN
         IF d.ok THEN Err("Exception", "Authentication error: " \o Str(d.v)) ELSE d
    ELSE IF r.status = 403
    THEN LET d == error_detail(r.body, "Insufficient permissions") IN
         IF d.ok THEN Err("PermissionError", Str(d.v)) ELSE d
    ELSE raise_for_status(r)

\* a handler's step result as the way the call ends
Ends(x) == IF x.ok THEN Returns(x.v) ELSE Raises(x.exc, x.detail)

\* manager._transform_workbook(w) on a server record
transform_workbook_call ==
    \E w \in WorkbookInputs :
        /\ call' = Call("_transform_workbook", w, 0, NoReq, NoResp,
                        Ends(transform_workbook(w)))
        /\ UNCHANGED <<config, reader, auth_token, site_uuid, wm_exists, wm_site_id, md_exists>>

\* manager._transform_workbook(w) on the record the previous application
\* returned
transform_workbook_again ==
    /\ call.op = "_transform_workbook"
    /\ call.ret.kind = "return"
    /\ call' = Call("_transform_workbook_again", call.ret.value, 0, NoReq, NoResp,
                    Ends(transform_workbook(call.ret.value)))
    /\ UNCHANGED <<config, reader, auth_token, site_uuid, wm_exists, wm_site_id, md_exists>>

WorkbookManager_init_unchecked ==
    /\ wm_exists' = TRUE
    /\ wm_site_id' = site_uuid
    /\ call' = Call("WorkbookManager", None, 0, NoReq, NoResp, Returns(None))
    /\ UNCHANGED <<config, reader, auth_token, site_uuid, md_exists>>
WorkbookManager_init ==
    IF ~is_authenticated(auth_token)
    THEN /\ call' = Call("WorkbookManager", None, 0, NoReq, NoResp,
                         Raises("ValueError", "Client must be authenticated"))
         /\ UNCHANGED <<config, reader, auth_token, site_uuid, wm_exists, wm_site_id, md_exists>>
    ELSE /\ wm_exists' = TRUE
         /\ wm_site_id' = site_uuid
         /\ call' = Call("WorkbookManager", None, 0, NoReq, NoResp, Returns(None))
         /\ UNCHANGED <<config, reader, auth_token, site_uuid, md_exists>>

\* what list_workbooks() makes of the answer r to its GET
list_workbooks_outcome_first_only(r) ==
    IF r.kind = "transport" THEN Raises(r.exc, "")
    ELSE LET h == handle_response(r) IN
    IF ~h.ok THEN Ends(h)
    ELSE LET data == r.body IN
    IF data = JInvalid THEN Raises("JSONDecodeError", "")
    ELSE IF ~CanContain(data) THEN Raises("TypeError", "")
    ELSE IF ~Contains(data, "workbooks") THEN Returns(JArr(<<>>))
    ELSE IF ~IsDict(data) THEN Raises("TypeError", "")
    ELSE LET wrapper == data.o["workbooks"] IN
    IF ~CanContain(wrapper) THEN Raises("TypeError", "")
    ELSE IF ~Contains(wrapper, "workbook") THEN Returns(JArr(<<>>))
    ELSE IF ~IsDict(wrapper) THEN Raises("TypeError", "")
    ELSE LET workbooks == wrapper.o["workbook"] IN
    IF workbooks.t # "arr" THEN Raises("TypeError", "")
    ELSE LET ws == transform_all(workbooks.a) IN
         IF ws.ok THEN Returns(JArr(IF Len(ws.v) > 1 THEN <<ws.v[1]>> ELSE ws.v)) ELSE Ends(ws)
list_workbooks_outcome(r) ==
    IF r.kind = "transport" THEN Raises(r.exc, "")
    ELSE LET h == handle_response(r) IN
    IF ~h.ok THEN Ends(h)
    ELSE LET data == r.body IN
    IF data = JInvalid THEN Raises("JSONDecodeError", "")
    ELSE IF ~CanContain(data) THEN Raises("TypeError", "")
    ELSE IF ~Contains(data, "workbooks") THEN Returns(JArr(<<>>))
    ELSE IF ~IsDict(data) THEN Raises("TypeError", "")
    ELSE LET wrapper == data.o["workbooks"] IN
    IF ~CanContain(wrapper) THEN Raises("TypeError", "")
    ELSE IF ~Contains(wrapper, "workbook") THEN Returns(JArr(<<>>))
    ELSE IF ~IsDict(wrapper) THEN Raises("TypeError", "")
    ELSE LET workbooks == wrapper.o["workbook"] IN
    IF workbooks.t # "arr" THEN Raises("TypeError", "")
    ELSE LET ws == transform_all(workbooks.a) IN
         IF ws.ok THEN Returns(JArr(ws.v)) ELSE Ends(ws)

list_workbooks_clears_on_401 ==
    /\ wm_exists
    /\ \E params \in Filters, r \in {TransportError} \cup ListResponses :
        /\ call' = Call("list_workbooks", params, 1,
                        Req("GET", "workbooks", wm_site_id, <<>>,
                            headers(auth_token), params),
                        r, list_workbooks_outcome(r))
        /\ auth_token' = IF r.status = 401 THEN None ELSE auth_token
        /\ site_uuid' = IF r.status = 401 THEN None ELSE site_uuid
    /\ UNCHANGED <<config, reader, wm_exists, wm_site_id, md_exists>>
list_workbooks ==
    /\ wm_exists
    /\ \E params \in Filters, r \in {TransportError} \cup ListResponses :
        call' = Call("list_workbooks", params, 1,
                     Req("GET", "workbooks", wm_site_id, <<>>,
                         headers(auth_token), params),
                     r, list_workbooks_outcome(r))
    /\ UNCHANGED <<config, reader, auth_token, site_uuid, wm_exists, wm_site_id, md_exists>>

Whitespace == {" ", "\t", "\n"}

\* str.strip() on the characters of a str
RECURSIVE lstrip(_)
lstrip(cs) ==
    IF cs # <<>> /\ Head(cs) \in Whitespace THEN lstrip(Tail(cs)) ELSE cs
RECURSIVE rstrip(_)
rstrip(cs) ==
    IF cs # <<>> /\ cs[Len(cs)] \in Whitespace
    THEN rstrip(SubSeq(cs, 1, Len(cs) - 1)) ELSE cs
strip(cs) == rstrip(lstrip(cs))

\* not isinstance(workbook_id, str) or not workbook_id.strip()
invalid_workbook_id_unstripped(workbook_id) ==
    workbook_id.t # "str" \/ workbook_id.chars = <<>>
invalid_workbook_id(workbook_id) ==
    workbook_id.t # "str" \/ strip(workbook_id.chars) = <<>>

\* what get_workbook(workbook_id) makes of the answer r to its GET
get_workbook_outcome(workbook_id, r) ==
    IF r.kind = "transport" THEN Raises(r.exc, "")
    ELSE IF r.status = 404
    THEN Raises("ValueError", "Workbook not found: " \o Join(workbook_id.chars))
    ELSE LET h == handle_response(r) IN
    IF ~h.ok THEN Ends(h)
    ELSE IF r.body = JInvalid THEN Raises("JSONDecodeError", "")
    ELSE IF ~IsDict(r.body) THEN Raises("TypeError", "")
    ELSE IF "workbook" \notin DOMAIN r.body.o THEN Raises("KeyError", "workbook")
    ELSE Ends(transform_workbook(r.body.o["workbook"]))

get_workbook ==
    /\ wm_exists
    /\ \E workbook_id \in WorkbookIds :
        IF invalid_workbook_id(workbook_id)
        THEN call' = Call("get_workbook", workbook_id, 0, NoReq, NoResp,
                          Raises("ValueError", "Invalid workbook ID"))
        ELSE \E r \in {TransportError} \cup GetResponses :
             call' = Call("get_workbook", workbook_id, 1,
                          Req("GET", "workbook", wm_site_id, strip(workbook_id.chars),
                              headers(auth_token), JNull),
                          r, get_workbook_outcome(workbook_id, r))
    /\ UNCHANGED <<config, reader, auth_token, site_uuid, wm_exists, wm_site_id, md_exists>>

(* ------------------------- MetadataAPI --------------------------------- *)

MetadataAPI_init ==
    IF ~is_authenticated(auth_token)
    THEN /\ call' = Call("MetadataAPI", None, 0, NoReq, NoResp,
                         Raises("ValueError", "Client must be authenticated"))
         /\ UNCHANGED <<config, reader, auth_token, site_uuid, wm_exists, wm_site_id, md_exists>>
    ELSE /\ md_exists' = TRUE
         /\ call' = Call("MetadataAPI", None, 0, NoReq, NoResp, Returns(None))
         /\ UNCHANGED <<config, reader, auth_token, site_uuid, wm_exists, wm_site_id>>

\* json_data: {"query": query}, plus "variables" when variables is truthy
json_data(q, variables) ==
    JObj(IF Truthy(variables)
         THEN [k \in {"query", "variables"} |-> IF k = "query" THEN q ELSE variables]
         ELSE [k \in {"query"} |-> q])

empty_query_none_only(q) == q = None
\* not query
empty_query(q) == ~Truthy(q)

rate_limited_unknown(r) ==
    Raises("Exception", "Rate limited. Retry after unknown seconds")
\* the 429 branch: response.headers.get('Retry-After', 'unknown')
rate_limited(r) ==
    Raises("Exception", "Rate limited. Retry after "
             \o (IF r.retry_after = None THEN "unknown" ELSE Str(r.retry_after))
             \o " seconds")

server_error_no_body(r) == Raises("Exception", "Server error: ")
\* the >= 500 branch
server_error(r) == Raises("Exception", "Server error: " \o r.text)

graphql_result_errors_ignored(data) == Returns(data)
\* the decoded body of a response that passed raise_for_status()
graphql_result(data) ==
    IF Contains(data, "errors")
    THEN RaisesWith("ValueError", "GraphQL execution error: ", data.o["errors"])
    ELSE Returns(data)

\* what query() makes of the answer r to its POST
query_outcome(r) ==
    IF r.kind = "transport" THEN Raises(r.exc, "")
    ELSE IF r.status = 429 THEN rate_limited(r)
    ELSE IF r.status >= 500 THEN server_error(r)
    ELSE IF r.status = 400
    THEN (IF r.body = JInvalid THEN Raises("JSONDecodeError", "")
          ELSE IF ~CanContain(r.body) THEN Raises("TypeError", "")
          ELSE IF Contains(r.body, "errors")
          THEN RaisesWith("ValueError", "GraphQL syntax error: ", r.body.o["errors"])
          ELSE Raises("ValueError", "Bad request: " \o r.text))
    ELSE LET h == raise_for_status(r) IN
    IF ~h.ok THEN Ends(h)
    ELSE IF r.body = JInvalid THEN Raises("JSONDecodeError", "")
    ELSE IF ~CanContain(r.body) THEN Raises("TypeError", "")
    ELSE graphql_result(r.body)

query_retries_on_429 ==
    /\ md_exists
    /\ \E q \in Queries, variables \in Variables :
        LET arg == JObj([k \in {"query", "variables"} |->
                            IF k = "query" THEN q ELSE variables]) IN
        IF empty_query(q)
        THEN call' = Call("query", arg, 0, NoReq, NoResp,
                          Raises("ValueError", "Query cannot be empty"))
        ELSE \E r \in {TransportError} \cup QueryResponses :
             call' = Call("query", arg, IF r.status = 429 THEN 2 ELSE 1,
                          Req("POST", "metadata/graphql", JNull, <<>>,
                              headers(auth_token), json_data(q, variables)),
                          r, query_outcome(r))
    /\ UNCHANGED <<config, reader, auth_token, site_uuid, wm_exists, wm_site_id, md_exists>>
query ==
    /\ md_exists
    /\ \E q \in Queries, variables \in Variables :
        LET arg == JObj([k \in {"query", "variables"} |->
                            IF k = "query" THEN q ELSE variables]) IN
        IF empty_query(q)
        THEN call' = Call("query", arg, 0, NoReq, NoResp,
                          Raises("ValueError", "Query cannot be empty"))
        ELSE \E r \in {TransportError} \cup QueryResponses :
             call' = Call("query", arg, 1,
                          Req("POST", "metadata/graphql", JNull, <<>>,
                              headers(auth_token), json_data(q, variables)),
                          r, query_outcome(r))
    /\ UNCHANGED <<config, reader, auth_token, site_uuid, wm_exists, wm_site_id, md_exists>>

(* ------------------------- specification ------------------------------- *)

\* a client as TableauClient("https://t.co", "test_token", "test_secret_123",
\* "test_site") leaves it
Init ==
    /\ server_url = JChars(HttpsScheme \o Host)
    /\ token_name = JStr("test_token")
    /\ token_secret = JStr("test_secret_123")
    /\ site_id = JStr("test_site")
    /\ auth_token = None
    /\ site_uuid = None
    /\ wm_exists = FALSE
    /\ wm_site_id = None
    /\ md_exists = FALSE
    /\ rd_pc = "idle"
    /\ rd_headers = [h \in {"Content-Type"} |-> JStr("application/json")]
    /\ call = [op |-> "none", arg |-> None, sent |-> 0, req |-> NoReq,
               resp |-> NoResp, ret |-> Returns(None),
               pre |-> [auth_token |-> None, site_uuid |-> None]]

Next ==
    \/ authenticate
    \/ signout
    \/ WorkbookManager_init
    \/ list_workbooks
    \/ get_workbook
    \/ MetadataAPI_init
    \/ query
    \/ str_call

Spec == Init /\ [][Next]_vars

\* a thread reading client.headers while another thread signs in and out
NextThreads == headers_test \/ headers_assign \/ authenticate \/ signout
SpecThreads == Init /\ [][NextThreads]_vars

\* the workbook reshaping alone, applied once and applied again
NextTransform == transform_workbook_call \/ transform_workbook_again
SpecTransform == Init /\ [][NextTransform]_vars

\* the constructor alone, on every argument combination
NextConstruct == TableauClient_init
SpecConstruct == Init /\ [][NextConstruct]_vars

(* ------------------------- claims -------------------------------------- *)

LastHttp(op, status) ==
    call.op = op /\ call.sent = 1 /\ call.resp.kind = "http"
    /\ call.resp.status = status

\* C1: in every reachable state auth_token and site_uuid are both None or
\* both present.  The code breaks it: a 200 sign-in answer without a site
\* sets the token alone.
C1_TokenAndSiteTogether == (auth_token = None) <=> (site_uuid = None)

\* the credentials envelope of the last answer carries a non-empty token
EnvelopeHasToken ==
    /\ IsDict(call.resp.body)
    /\ "credentials" \in DOMAIN call.resp.body.o
    /\ IsDict(call.resp.body.o["credentials"])
    /\ "token" \in DOMAIN call.resp.body.o["credentials"].o
    /\ Truthy(call.resp.body.o["credentials"].o["token"])

\* C2: authenticate() on a 200 answer with a token in the credentials
\* envelope returns True and leaves both identifiers set, the token to the
\* envelope's token and site_uuid to the envelope's site id.  The code
\* breaks it when the envelope has no site or a null site.
C2_SigninSetsBoth ==
    (LastHttp("authenticate", 200) /\ EnvelopeHasToken) =>
        /\ call.ret = Returns(True)
        /\ auth_token = call.resp.body.o["credentials"].o["token"]
        /\ site_uuid # None
        /\ site_uuid = Get(Get(call.resp.body.o["credentials"], "site", EmptyDict),
                           "id", None)

C4_SignoutClears ==
    (call.op = "signout" /\ is_authenticated(call.pre.auth_token)) =>
        auth_token = None /\ site_uuid = None

C4_Witness ==
    /\ call.op = "signout"
    /\ is_authenticated(call.pre.auth_token)
    /\ call.pre.site_uuid # None
    /\ call.resp.kind = "transport"
    /\ auth_token = None

\* C5: signout() on an unauthenticated session returns True and sends
\* nothing; on an authenticated session it sends the sign-out POST and
\* returns True exactly on a 204, False on any other status or on a
\* transport failure.
C5_SignoutResult ==
    call.op = "signout" =>
        IF ~is_authenticated(call.pre.auth_token)
        THEN call.sent = 0 /\ call.req = NoReq /\ call.ret = Returns(True)
        ELSE /\ call.sent = 1
             /\ call.req.method = "POST" /\ call.req.endpoint = "auth/signout"
             /\ call.ret \in {Returns(True), Returns(False)}
             /\ call.ret = Returns(True) <=>
                    (call.resp.kind = "http" /\ call.resp.status = 204)

C5_Witness ==
    /\ call.op = "signout"
    /\ is_authenticated(call.pre.auth_token)
    /\ call.resp.kind = "http" /\ call.resp.status = 200
    /\ call.ret = Returns(False)

\* C6: in every reachable state the headers carry Content-Type:
\* application/json, and carry X-Tableau-Auth exactly when is_authenticated,
\* with the token as its value.  The code breaks it for an empty token.
C6_AuthHeaderIffAuthenticated ==
    LET h == headers(auth_token) IN
    /\ "Content-Type" \in DOMAIN h /\ h["Content-Type"] = "application/json"
    /\ ("X-Tableau-Auth" \in DOMAIN h) <=> is_authenticated(auth_token)
    /\ is_authenticated(auth_token) =>
          ("X-Tableau-Auth" \in DOMAIN h /\ JStr(h["X-Tableau-Auth"]) = auth_token)

\* C7: no workbook or metadata request is sent while the session is
\* unauthenticated: such a call fails without a request.  The code breaks
\* it for a manager built before signout().
C7_NoRequestWhileUnauthenticated ==
    (call.op \in {"list_workbooks", "get_workbook", "query"}
     /\ ~is_authenticated(call.pre.auth_token)) =>
        call.sent = 0 /\ call.ret.kind = "raise"

\* C8: constructing a WorkbookManager or a MetadataAPI on a client that is
\* not authenticated raises ValueError('Client must be authenticated') and
\* sends nothing; on an authenticated client it succeeds.
C8_ConstructionNeedsAuthentication ==
    call.op \in {"WorkbookManager", "MetadataAPI"} =>
        /\ call.sent = 0
        /\ IF is_authenticated(call.pre.auth_token)
           THEN /\ call.ret = Returns(None)
                /\ (call.op = "WorkbookManager" => wm_exists)
                /\ (call.op = "MetadataAPI" => md_exists)
           ELSE call.ret = Raises("ValueError", "Client must be authenticated")

C8_Witness ==
    /\ call.op = "WorkbookManager"
    /\ ~is_authenticated(call.pre.auth_token)
    /\ call.ret.kind = "raise"

C10_Non200ReturnsFalse ==
    (call.op = "authenticate" /\ call.resp.kind = "http" /\ call.resp.status # 200) =>
        call.ret = Returns(False)

C10_Witness ==
    /\ LastHttp("authenticate", 500)
    /\ call.ret = Returns(False)

\* C11: when the sign-in request fails at the transport level,
\* authenticate() raises that same error (it does not return False) and
\* auth_token and site_uuid are what they were before the call.
C11_TransportErrorPropagates ==
    (call.op = "authenticate" /\ call.resp.kind = "transport") =>
        /\ call.ret = Raises(call.resp.exc, "")
        /\ auth_token = call.pre.auth_token
        /\ site_uuid = call.pre.site_uuid

C11_Witness ==
    /\ call.op = "authenticate"
    /\ call.resp.kind = "transport" /\ call.resp.exc = "Timeout"
    /\ call.ret.kind = "raise" /\ call.ret.exc = "Timeout"
    /\ is_authenticated(auth_token)

\* the URL argument of the last construction
UrlArg == call.arg.server_url

C13_InvalidUrlRejected ==
    (call.op = "TableauClient"
     /\ call.arg.token_name = JStr("test_token")
     /\ call.arg.token_secret = JStr("test_secret_123")
     /\ (\/ UrlArg = None
         \/ UrlArg.chars \in {<<>>, HttpScheme, HttpsScheme}
         \/ ~(StartsWith(UrlArg.chars, HttpScheme) \/ StartsWith(UrlArg.chars, HttpsScheme)))) =>
        call.ret.kind = "raise" /\ call.ret.exc \in {"ValueError", "TypeError"}

\* every tag of a tags wrapper carries a label
LabelledTags(w) ==
    ("tags" \in DOMAIN w.o /\ IsDict(w.o["tags"]) /\ "tag" \in DOMAIN w.o["tags"].o) =>
        \A i \in 1..Len(w.o["tags"].o["tag"].a) :
            "label" \in DOMAIN w.o["tags"].o["tag"].a[i].o

\* C14: a tags wrapper {tag: [{label: l1}, ..., {label: ln}]} becomes
\* [l1, ..., ln] in the same order, a tags value of None or a wrapper without
\* a tag entry becomes []; a views wrapper {view: [v1, ..., vn]} becomes
\* [v1, ..., vn], a None or empty views wrapper becomes [].
C14_WrappersFlattened ==
    (call.op = "_transform_workbook" /\ LabelledTags(call.arg)) =>
        LET w == call.arg.o IN
        /\ call.ret.kind = "return"
        /\ "tags" \in DOMAIN w =>
            LET out == call.ret.value.o["tags"] IN
            IF IsDict(w["tags"]) /\ "tag" \in DOMAIN w["tags"].o
            THEN LET tag == w["tags"].o["tag"].a IN
                 /\ out.t = "arr" /\ Len(out.a) = Len(tag)
                 /\ \A i \in 1..Len(tag) : out.a[i] = tag[i].o["label"]
            ELSE out = JArr(<<>>)
        /\ "views" \in DOMAIN w =>
            LET out == call.ret.value.o["views"] IN
            IF IsDict(w["views"]) /\ "view" \in DOMAIN w["views"].o
            THEN out = w["views"].o["view"]
            ELSE out = JArr(<<>>)

C14_Witness ==
    /\ call.op = "_transform_workbook"
    /\ DOMAIN call.arg.o = {"id", "tags", "views"}
    /\ call.arg.o["tags"] = JObj([k \in {"tag"} |-> JArr(<<Label("sales"), Label("dashboard")>>)])
    /\ call.arg.o["views"] = JObj([k \in {"view"} |-> JArr(<<JObj([k2 \in {"id"} |-> JStr("view1")])>>)])
    /\ call.ret.kind = "return"
    /\ call.ret.value.o["tags"] = JArr(<<JStr("sales"), JStr("dashboard")>>)
    /\ call.ret.value.o["views"] = JArr(<<JObj([k2 \in {"id"} |-> JStr("view1")])>>)

\* C15 (as stated): every reshaped record has tags and views as flat
\* sequences, the empty sequence when the server's record has no wrapper.
C15_AlwaysFlatSequences ==
    (call.op = "_transform_workbook" /\ call.ret.kind = "return") =>
        \A k \in {"tags", "views"} :
            /\ k \in DOMAIN call.ret.value.o
            /\ call.ret.value.o[k].t = "arr"
            /\ k \notin DOMAIN call.arg.o => call.ret.value.o[k] = JArr(<<>>)

\* C15 (amended): the reshaped record has a tags (views) entry exactly when
\* the server's record has one, and then it is a flat sequence; a record
\* without the entry is returned without it, every other field unchanged.
C15_FlatWherePresent ==
    (call.op = "_transform_workbook" /\ call.ret.kind = "return") =>
        /\ DOMAIN call.ret.value.o = DOMAIN call.arg.o
        /\ \A k \in DOMAIN call.arg.o :
            IF k \in {"tags", "views"} THEN call.ret.value.o[k].t = "arr"
            ELSE call.ret.value.o[k] = call.arg.o[k]

C15_Witness ==
    /\ call.op = "_transform_workbook"
    /\ DOMAIN call.arg.o = {"id", "views"}
    /\ call.ret.kind = "return"
    /\ "tags" \notin DOMAIN call.ret.value.o
    /\ call.ret.value.o["views"] = JArr(<<>>)

\* C16 (as stated): applying the transformation to an already reshaped
\* workbook returns it unchanged.
C16_Idempotent ==
    call.op = "_transform_workbook_again" => call.ret = Returns(call.arg)

\* the reshaped record with its tags and views emptied
Emptied(w) ==
    JObj([k \in DOMAIN w.o |-> IF k \in {"tags", "views"} THEN JArr(<<>>) ELSE w.o[k]])

\* C16 (amended): applied to an already reshaped workbook, the transformation
\* raises TypeError when one of its labels is "tag" and otherwise returns the
\* workbook with its tags and views replaced by []; it returns the workbook
\* unchanged exactly when its tags and views are empty or absent.
C16_ReapplyEmptiesLists ==
    call.op = "_transform_workbook_again" =>
        /\ IF "tags" \in DOMAIN call.arg.o
              /\ \E i \in 1..Len(call.arg.o["tags"].a) : call.arg.o["tags"].a[i] = JStr("tag")
           THEN call.ret = Raises("TypeError", "")
           ELSE call.ret = Returns(Emptied(call.arg))
        /\ call.ret = Returns(call.arg) <=>
              \A k \in {"tags", "views"} \cap DOMAIN call.arg.o : call.arg.o[k] = JArr(<<>>)

C16_Witness ==
    /\ call.op = "_transform_workbook_again"
    /\ DOMAIN call.arg.o = {"id", "tags", "views"}
    /\ call.arg.o["tags"] = JArr(<<JStr("sales")>>)
    /\ call.arg.o["views"] = JArr(<<JObj([k2 \in {"id"} |-> JStr("view1")])>>)
    /\ call.ret.kind = "return"
    /\ call.ret.value.o["tags"] = JArr(<<>>)
    /\ call.ret.value.o["views"] = JArr(<<>>)

\* C17: list_workbooks returns [] when a 200 response has no workbooks
\* wrapper or a workbooks wrapper without a workbook entry; otherwise it
\* returns one reshaped record per workbook of the response, in its order.
C17_OneRecordPerWorkbook ==
    (LastHttp("list_workbooks", 200) /\ IsDict(call.resp.body)) =>
        LET data == call.resp.body.o IN
        IF "workbooks" \notin DOMAIN data THEN call.ret = Returns(JArr(<<>>))
        ELSE IF IsDict(data["workbooks"]) /\ "workbook" \notin DOMAIN data["workbooks"].o
        THEN call.ret = Returns(JArr(<<>>))
        ELSE (/\ IsDict(data["workbooks"])
              /\ data["workbooks"].o["workbook"].t = "arr"
              /\ \A i \in 1..Len(data["workbooks"].o["workbook"].a) :
                    LabelledTags(data["workbooks"].o["workbook"].a[i])) =>
             LET workbooks == data["workbooks"].o["workbook"].a IN
             /\ call.ret.kind = "return"
             /\ Len(call.ret.value.a) = Len(workbooks)
             /\ \A i \in 1..Len(workbooks) :
                    /\ call.ret.value.a[i].o["id"] = workbooks[i].o["id"]
                    /\ call.ret.value.a[i] = transform_workbook(workbooks[i]).v

C17_Witness ==
    /\ LastHttp("list_workbooks", 200)
    /\ IsDict(call.resp.body)
    /\ "workbooks" \in DOMAIN call.resp.body.o
    /\ IsDict(call.resp.body.o["workbooks"])
    /\ "workbook" \in DOMAIN call.resp.body.o["workbooks"].o
    /\ call.resp.body.o["workbooks"].o["workbook"].t = "arr"
    /\ Len(call.resp.body.o["workbooks"].o["workbook"].a) = 2
    /\ call.ret.kind = "return"
    /\ Len(call.ret.value.a) = 2
    /\ call.ret.value.a[1].o["id"] = JStr("workbook2")
    /\ call.ret.value.a[2].o["id"] = JStr("workbook1")

\* C18: list_workbooks raises an authentication error on a 401 response and
\* PermissionError on a 403 response, carrying the detail of the server's
\* error envelope when there is one. The code breaks it on a body that is
\* not a JSON object with an object under "error".
C18_DistinctAuthErrors ==
    (call.op = "list_workbooks" /\ call.resp.kind = "http"
     /\ call.resp.status \in {401, 403}) =>
        /\ call.ret.kind = "raise"
        /\ call.ret.exc = (IF call.resp.status = 401 THEN "Exception" ELSE "PermissionError")
        /\ (/\ IsDict(call.resp.body)
            /\ "error" \in DOMAIN call.resp.body.o
            /\ IsDict(call.resp.body.o["error"])
            /\ "detail" \in DOMAIN call.resp.body.o["error"].o) =>
              call.ret.detail =
                (IF call.resp.status = 401 THEN "Authentication error: " ELSE "")
                \o call.resp.body.o["error"].o["detail"].s

\* the exception classes an `except ValueError` clause catches:
\* JSONDecodeError derives from ValueError
ValueErrorClasses == {"ValueError", "JSONDecodeError"}

\* C19: get_workbook raises the not-found ValueError on a 404 response, and
\* what it raises on every other failure status (401, 403, other 4xx, 5xx)
\* is not a ValueError. The code breaks it on a 401 or 403 response whose
\* body is not JSON.
C19_NotFoundDistinct ==
    (call.op = "get_workbook" /\ call.resp.kind = "http") =>
        /\ call.resp.status = 404 =>
            call.ret = Raises("ValueError",
                              "Workbook not found: " \o Join(call.arg.chars))
        /\ (call.resp.status >= 400 /\ call.resp.status # 404) =>
            call.ret.kind = "raise" /\ call.ret.exc \notin ValueErrorClasses

\* C20: get_workbook with an id that is not a str, is empty or is whitespace
\* only raises ValueError("Invalid workbook ID") and sends no request.
C20_InvalidIdNoRequest ==
    (call.op = "get_workbook"
     /\ (call.arg.t # "str"
         \/ \A i \in 1..Len(call.arg.chars) : call.arg.chars[i] \in {" ", "\t", "\n"})) =>
        /\ call.ret = Raises("ValueError", "Invalid workbook ID")
        /\ call.sent = 0
        /\ call.req = NoReq
        /\ call.resp = NoResp

C20_Witness ==
    /\ call.op = "get_workbook"
    /\ call.arg = JChars(<<" ", "\t", " ">>)
    /\ call.ret = Raises("ValueError", "Invalid workbook ID")
    /\ call.sent = 0

\* C21: query() with an empty query (None or "") raises
\* ValueError("Query cannot be empty") and sends no request.
C21_EmptyQueryNoRequest ==
    (call.op = "query" /\ call.arg.o["query"] \in {None, JStr("")}) =>
        /\ call.ret = Raises("ValueError", "Query cannot be empty")
        /\ call.sent = 0
        /\ call.req = NoReq
        /\ call.resp = NoResp

C21_Witness ==
    /\ call.op = "query"
    /\ call.arg.o["query"] = JStr("")
    /\ call.ret.kind = "raise"
    /\ call.sent = 0

\* C22: query() on a 429 response raises a rate-limit error whose message
\* holds the Retry-After value of the response, or the word "unknown" when
\* the header is absent.
C22_RateLimitedMessage ==
    LastHttp("query", 429) =>
        /\ call.ret.kind = "raise" /\ call.ret.exc = "Exception"
        /\ call.ret.detail =
              IF call.resp.retry_after = None
              THEN "Rate limited. Retry after unknown seconds"
              ELSE "Rate limited. Retry after " \o call.resp.retry_after.s \o " seconds"

C22_Witness ==
    /\ LastHttp("query", 429)
    /\ call.resp.retry_after = JStr("30")
    /\ call.ret = Raises("Exception", "Rate limited. Retry after 30 seconds")

\* the decoded body is a JSON object with an errors field
HasErrors(body) == IsDict(body) /\ "errors" \in DOMAIN body.o

\* C23: query() on a status >= 500 raises a server error carrying the raw
\* response text, and on a 400 whose body has an errors envelope a syntax
\* error carrying that envelope; neither returns a result.
C23_ServerAndSyntaxErrors ==
    (call.op = "query" /\ call.resp.kind = "http") =>
        /\ call.resp.status >= 500 =>
              call.ret = Raises("Exception", "Server error: " \o call.resp.text)
        /\ (call.resp.status = 400 /\ HasErrors(call.resp.body)) =>
              call.ret = RaisesWith("ValueError", "GraphQL syntax error: ",
                                    call.resp.body.o["errors"])

C23_Witness ==
    /\ LastHttp("query", 503)
    /\ call.resp.text = "Internal Server Error"
    /\ call.ret = Raises("Exception", "Server error: Internal Server Error")

\* C24 (as stated): every non-2xx status other than 429, >= 500 and 400 with
\* an errors envelope raises the generic HTTP error.
C24_OtherStatusesHTTPError ==
    (call.op = "query" /\ call.resp.kind = "http"
     /\ ~(call.resp.status >= 200 /\ call.resp.status < 300)
     /\ call.resp.status # 429 /\ call.resp.status < 500
     /\ ~(call.resp.status = 400 /\ HasErrors(call.resp.body))) =>
        call.ret = Raises("HTTPError", "")

\* C24 (amended): 4xx statuses other than 400 and 429 raise the generic HTTP
\* error; a 400 whose JSON object body has no errors field raises
\* ValueError("Bad request: <text>"); a 3xx status is not a failure, its
\* body is handled like a 200 body.
C24_OtherStatuses ==
    (call.op = "query" /\ call.resp.kind = "http") =>
        /\ (call.resp.status >= 400 /\ call.resp.status < 500
            /\ call.resp.status \notin {400, 429}) =>
              call.ret = Raises("HTTPError", "")
        /\ (call.resp.status = 400 /\ IsDict(call.resp.body)
            /\ ~HasErrors(call.resp.body)) =>
              call.ret = Raises("ValueError", "Bad request: " \o call.resp.text)
        /\ (call.resp.status >= 300 /\ call.resp.status < 400
            /\ IsDict(call.resp.body)) =>
              IF HasErrors(call.resp.body)
              THEN call.ret = RaisesWith("ValueError", "GraphQL execution error: ",
                                         call.resp.body.o["errors"])
              ELSE call.ret = Returns(call.resp.body)

C24_Witness ==
    /\ LastHttp("query", 400)
    /\ call.resp.body = EmptyDict
    /\ call.ret = Raises("ValueError", "Bad request: Bad Request")

\* C25: on a 200 response whose decoded body is a JSON object, query() raises
\* the execution error carrying the errors envelope when the body has a
\* top-level errors field, and otherwise returns the decoded body unchanged.
C25_ExecutionErrorOrBody ==
    (LastHttp("query", 200) /\ IsDict(call.resp.body)) =>
        IF "errors" \in DOMAIN call.resp.body.o
        THEN call.ret = RaisesWith("ValueError", "GraphQL execution error: ",
                                   call.resp.body.o["errors"])
        ELSE call.ret = Returns(call.resp.body)

C25_Witness ==
    /\ LastHttp("query", 200)
    /\ call.resp.body = JObj([k \in {"data"} |-> GraphQLData])
    /\ call.ret = Returns(call.resp.body)

\* the operations that talk to the server
HttpOps == {"authenticate", "signout", "list_workbooks", "get_workbook", "query"}

\* C26: each call to authenticate, signout, list_workbooks, get_workbook or
\* query sends at most one HTTP request, whatever status or failure the
\* request produces.
C26_AtMostOneRequest ==
    call.op \in HttpOps =>
        /\ call.sent \in {0, 1}
        /\ call.sent = 0 <=> (call.req = NoReq /\ call.resp = NoResp)

C26_Witness ==
    /\ call.op = "query"
    /\ call.resp.kind = "http" /\ call.resp.status = 429
    /\ call.ret.kind = "raise"
    /\ call.sent = 1

\* other clients to compare a client with
OtherSecrets == {JStr("test_secret_123"), JStr("hunter2")}
OtherUrls == {JChars(HttpsScheme \o Host), JChars(HttpScheme \o Host)}

\* C27: str(client) shows the server URL and does not depend on the token
\* secret: a client that differs only in token_secret has the same str(), a
\* client that differs only in server_url has another one.
C27_StrHidesSecret ==
    call.op = "__str__" =>
        /\ \A secret \in OtherSecrets :
              TableauClient_str([client EXCEPT !.token_secret = secret]) = call.ret.value.s
        /\ \A url \in OtherUrls \ {server_url} :
              TableauClient_str([client EXCEPT !.server_url = url]) # call.ret.value.s

C27_Witness ==
    /\ call.op = "__str__"
    /\ is_authenticated(auth_token)
    /\ call.ret = Returns(JStr("TableauClient(server=https://t.co, site=test_site, authenticated)"))

\* C28: authenticate() returns True exactly when the client is authenticated
\* after the call, and a call that returns False leaves auth_token and
\* site_uuid as they were. The code breaks it on 200 answers without a token
\* or with a null site.
C28_ResultAgreesWithSession ==
    (call.op = "authenticate" /\ call.ret.kind = "return") =>
        /\ call.ret.value = True <=> is_authenticated(auth_token)
        /\ call.ret.value = False =>
              auth_token = call.pre.auth_token /\ site_uuid = call.pre.site_uuid

\* C29: under any interleaving of a thread reading client.headers with a
\* thread running signout() or authenticate(), a returned headers map has no
\* X-Tableau-Auth entry or one whose value is a token the session held,
\* never None. The code breaks it: the property reads auth_token twice.
C29_HeadersNeverCarryNone ==
    "X-Tableau-Auth" \in DOMAIN rd_headers =>
        /\ rd_headers["X-Tableau-Auth"] # None
        /\ rd_headers["X-Tableau-Auth"] \in TokenValues

\* C30: every request of a WorkbookManager addresses the site the client is
\* signed in to when the request is sent. The code breaks it: the manager
\* keeps the site id it read at construction.
C30_RequestsCurrentSite ==
    (call.op \in {"list_workbooks", "get_workbook"} /\ call.sent = 1) =>
        call.req.site = site_uuid

====
